---- MODULE Spec2Model ----
(***************************************************************************)
(* The path-addressed catalog of bot/database.py (DatabaseManager): the    *)
(* folders, files and users tables and the operations on them.  Strings    *)
(* are sequences of one-character strings, so that prefixes, rstrip and    *)
(* the LIKE patterns of delete_folder are computed character by character. *)
(***************************************************************************)
EXTENDS Integers, Sequences, FiniteSets, TLC

VARIABLES folders, files, users, pre, call, rd, wr, boot, sess, upd, bcast,
          bulk

vars ==
    <<folders, files, users, pre, call, rd, wr, boot, sess, upd, bcast, bulk>>

(***************************************************************************)
(* Bounds of the model.                                                    *)
(***************************************************************************)
MaxFolders == 2    \* non-root Folder rows
MaxFiles == 2      \* File rows

(***************************************************************************)
(* Strings.                                                                *)
(***************************************************************************)
Slash == <<"/">>
S_A == <<"A">>
S_B == <<"B">>
S_AB == <<"A", "B">>
S_Pct == <<"%">>
S_Und == <<"_">>
S_Bsl == <<"\\">>
P_A == <<"/", "A">>
P_AB == <<"/", "A", "B">>
P_A_B == <<"/", "A", "/", "B">>
P_Pct == <<"/", "%">>
P_Und == <<"/", "_">>
P_Bsl == <<"/", "\\">>

\* SQL NULL in folders.parent_path: a value no string of characters equals
Null == <<"NULL">>
RootName == <<"R", "o", "o", "t">>
RootRow == [path |-> Slash, name |-> RootName, parent_path |-> Null]

\* str.rstrip('/')
RECURSIVE RStripSlash(_)
RStripSlash(s) ==
    IF s # <<>> /\ s[Len(s)] = "/" THEN RStripSlash(SubSeq(s, 1, Len(s) - 1))
    ELSE s

\* str.startswith, the "literal prefix" the specification speaks of
StartsWith(s, p) == Len(s) >= Len(p) /\ SubSeq(s, 1, Len(p)) = p

\* Variant joining the parent path as given, trailing '/' included
ChildPath_NoStrip(parent_path, folder_name) ==
    IF parent_path = Slash THEN Slash \o folder_name
    ELSE parent_path \o Slash \o folder_name

\* The child path computed by create_folder and delete_folder
ChildPath(parent_path, folder_name) ==
    IF parent_path = Slash THEN Slash \o folder_name
    ELSE RStripSlash(parent_path) \o Slash \o folder_name

\* PostgreSQL's  s LIKE pat : '%' matches any run of characters, '_' any one
\* character, and a backslash makes the next pattern character literal.
RECURSIVE LikeMatch(_, _)
LikeMatch(s, pat) ==
    IF pat = <<>> THEN s = <<>>
    ELSE IF Head(pat) = "%"
         THEN LikeMatch(s, Tail(pat)) \/ (s # <<>> /\ LikeMatch(Tail(s), pat))
    ELSE IF Head(pat) = "_"
         THEN s # <<>> /\ LikeMatch(Tail(s), Tail(pat))
    ELSE IF Head(pat) = "\\"
         THEN /\ Len(pat) >= 2
              /\ s # <<>>
              /\ Head(s) = pat[2]
              /\ LikeMatch(Tail(s), Tail(Tail(pat)))
    ELSE s # <<>> /\ Head(s) = Head(pat) /\ LikeMatch(Tail(s), Tail(pat))

\* The pattern f"{folder_path}%" of delete_folder
DeletePattern(folder_path) == folder_path \o <<"%">>

(***************************************************************************)
(* Inputs.                                                                 *)
(***************************************************************************)
\* (parent_path, folder_name) arguments of create_folder / delete_folder
FolderArgs ==
    { <<Slash, <<>>>>, <<Slash, S_A>>, <<Slash, S_AB>>, <<Slash, S_Pct>>,
      <<Slash, S_Und>>, <<Slash, S_Bsl>>, <<P_A, S_B>> }

\* (folder_path, filename) arguments of add_file / delete_file / get_file_id
F_x == <<"x">>
F_y == <<"y">>
FileArgs == { <<P_A, F_x>>, <<P_A_B, F_y>>, <<P_AB, F_x>> }
\* (file_id, file_type, file_size) of an add_file call
FileData ==
    { [file_id |-> "ref1", file_type |-> "document", file_size |-> 0],
      [file_id |-> "ref2", file_type |-> "photo", file_size |-> 5] }
NoData == [file_id |-> "none", file_type |-> "none", file_size |-> 0]

UserIds == {1}
UserNames == {"admin"}

\* "none": every statement succeeds; "stmtK": the K-th statement of the call
\* raises (connection lost, timeout), which the call's except clause catches
NoFault == "none"
Faults1 == {"none", "stmt1"}
Faults2 == {"none", "stmt1", "stmt2"}
Faults4 == {"none", "stmt1", "stmt2", "stmt3", "stmt4"}

Catalog == [folders |-> folders, files |-> files, users |-> users]

\* Every method body is  try: ... except Exception: return <failure value>,
\* and the errors psycopg2 raises for a statement derive from Exception: none
\* of them leaves the method
CaughtFaults == Faults4

\* Variant without the except clause
Propagates_Uncaught(fault) == fault # NoFault

Propagates(fault) == fault # NoFault /\ fault \notin CaughtFaults

NoCall == [op |-> "init", path |-> <<>>, name |-> <<>>, data |-> NoData,
           fault |-> NoFault, ret |-> TRUE, exc |-> FALSE]
\* A reader or writer connection with no call in progress
Idle == [pc |-> "idle", op |-> "none", path |-> <<>>, name |-> <<>>,
         data |-> NoData, k |-> 0, acc |-> <<>>]

\* The users that send updates: the administrator (username ADMIN_USERNAME)
\* and another user
Admin == "admin"
Guest == "guest"
BotUsers == {Admin, Guest}

\* context.user_data of a user that has sent nothing yet: every
\* user_data.get(flag) is falsy and current_path defaults to []
\* prompted_path is history: the current_path at the last upload prompt
NewSession ==
    [current_path |-> <<>>, awaiting_folder_name |-> FALSE,
     awaiting_search |-> FALSE, awaiting_broadcast |-> FALSE,
     awaiting_upload |-> FALSE, prompted_path |-> <<>>]

NoSessions == [u \in BotUsers |-> NewSession]

\* No update processed yet
NoUpdate == [user |-> "none", kind |-> "none", handler |-> "none", data |-> <<>>]

\* No broadcast made yet (reported: the counts told to the administrator)
NoBroadcast ==
    [attempts |-> <<>>, delivered |-> {}, reported |-> <<>>,
     raised |-> FALSE]

\* The bulk importer not running
BulkIdle ==
    [pc |-> "idle", dir |-> <<"/">>, file |-> <<>>, i |-> 0, outcomes |-> <<>>,
     ret |-> [len |-> 0, file_id |-> "None", file_unique_id |-> "None",
              file_size |-> 0],
     error |-> "none"]

\* main() after a successful start: connected, tables created, application
\* built, handlers registered, polling
Booted == [pc |-> "polling", ssl_failed |-> FALSE, plain_failed |-> FALSE,
           tables_failed |-> FALSE, app |-> TRUE, handlers |-> TRUE]

(***************************************************************************)
(* DatabaseManager.__init__: connect, create_tables (root row inserted).   *)
(***************************************************************************)
Init ==
    /\ folders = {RootRow}
    /\ files = {}
    /\ users = {}
    /\ pre = [folders |-> {RootRow}, files |-> {}, users |-> {}]
    /\ call = NoCall
    /\ rd = Idle
    /\ wr = Idle
    /\ boot = Booted
    /\ sess = NoSessions
    /\ upd = NoUpdate
    /\ bcast = NoBroadcast
    /\ bulk = BulkIdle

NonRoot(fo) == {r \in fo : r.path # Slash}

(***************************************************************************)
(* create_folder: one INSERT; the UNIQUE constraint on path makes a        *)
(* duplicate raise IntegrityError, which returns False.                    *)
(***************************************************************************)
InsertFolder(fo, row) ==
    IF \E r \in fo : r.path = row.path THEN fo ELSE fo \cup {row}

\* Variant without the UNIQUE constraint on folders.path
CreateFolderOk_NoUnique(fo, new_path, fault) == fault = NoFault

CreateFolderOk(fo, new_path, fault) ==
    fault = NoFault /\ ~(\E r \in fo : r.path = new_path)

CreateFolder(parent_path, folder_name, fault) ==
    LET new_path == ChildPath(parent_path, folder_name)
        row == [path |-> new_path, name |-> folder_name,
                parent_path |-> parent_path]
        ok == CreateFolderOk(folders, new_path, fault)
    IN /\ rd.pc = "idle" /\ wr.pc = "idle"
       /\ ok => Cardinality(NonRoot(folders)) < MaxFolders
       /\ folders' = IF ok THEN InsertFolder(folders, row) ELSE folders
       /\ pre' = Catalog
       /\ call' = [op |-> "create_folder", path |-> parent_path,
                   name |-> folder_name, data |-> NoData,
                   fault |-> fault, ret |-> ok,
                   exc |-> Propagates(fault)]
       /\ UNCHANGED <<files, users, rd, wr, boot, sess, upd, bcast, bulk>>

(***************************************************************************)
(* delete_folder: two DELETE statements with the pattern folder_path%, on  *)
(* an autocommit connection: each statement is committed as it completes.  *)
(***************************************************************************)
DeleteFilesLike(fi, pat) == {r \in fi : ~LikeMatch(r.folder_path, pat)}

DeleteFoldersLike(fo, pat) == {r \in fo : ~LikeMatch(r.path, pat)}

\* Variant running both statements in one transaction that is rolled back
DeleteFolder_Rollback(parent_path, folder_name, fault) ==
    LET folder_path == ChildPath(parent_path, folder_name)
        pat == DeletePattern(folder_path)
    IN /\ rd.pc = "idle" /\ wr.pc = "idle"
       /\ files' = IF fault = NoFault THEN DeleteFilesLike(files, pat)
                   ELSE files
       /\ folders' = IF fault = NoFault THEN DeleteFoldersLike(folders, pat)
                     ELSE folders
       /\ pre' = Catalog
       /\ call' = [op |-> "delete_folder", path |-> parent_path,
                   name |-> folder_name, data |-> NoData,
                   fault |-> fault, ret |-> (fault = NoFault),
                   exc |-> Propagates(fault)]
       /\ UNCHANGED <<users, rd, wr, boot, sess, upd, bcast, bulk>>

DeleteFolder(parent_path, folder_name, fault) ==
    LET folder_path == ChildPath(parent_path, folder_name)
        pat == DeletePattern(folder_path)
    IN /\ rd.pc = "idle" /\ wr.pc = "idle"
       /\ files' = IF fault = "stmt1" THEN files
                   ELSE DeleteFilesLike(files, pat)
       /\ folders' = IF fault \in {"stmt1", "stmt2"} THEN folders
                     ELSE DeleteFoldersLike(folders, pat)
       /\ pre' = Catalog
       /\ call' = [op |-> "delete_folder", path |-> parent_path,
                   name |-> folder_name, data |-> NoData,
                   fault |-> fault, ret |-> (fault = NoFault),
                   exc |-> Propagates(fault)]
       /\ UNCHANGED <<users, rd, wr, boot, sess, upd, bcast, bulk>>

(***************************************************************************)
(* add_file: INSERT ... ON CONFLICT (filename, folder_path) DO UPDATE.     *)
(***************************************************************************)
SameKey(r, folder_path, filename) ==
    r.filename = filename /\ r.folder_path = folder_path

\* Variant with a plain INSERT, no ON CONFLICT clause and no constraint
UpsertFile_InsertOnly(fi, row) == fi \cup {row}

UpsertFile(fi, row) ==
    {r \in fi : ~SameKey(r, row.folder_path, row.filename)} \cup {row}

AddFile(folder_path, filename, data, fault) ==
    LET row == [filename |-> filename, folder_path |-> folder_path,
                file_id |-> data.file_id, file_type |-> data.file_type,
                file_size |-> data.file_size]
        ok == fault = NoFault
    IN /\ rd.pc = "idle" /\ wr.pc = "idle"
       /\ (ok /\ ~(\E r \in files : SameKey(r, folder_path, filename)))
             => Cardinality(files) < MaxFiles
       /\ files' = IF ok THEN UpsertFile(files, row) ELSE files
       /\ pre' = Catalog
       /\ call' = [op |-> "add_file", path |-> folder_path,
                   name |-> filename, data |-> data,
                   fault |-> fault, ret |-> ok,
                   exc |-> Propagates(fault)]
       /\ UNCHANGED <<folders, users, rd, wr, boot, sess, upd, bcast, bulk>>

(***************************************************************************)
(* delete_file: DELETE of the exact (filename, folder_path) key.           *)
(***************************************************************************)
\* Variant matching on the filename alone
RemoveFile_ByName(fi, folder_path, filename) ==
    {r \in fi : r.filename # filename}

RemoveFile(fi, folder_path, filename) ==
    {r \in fi : ~SameKey(r, folder_path, filename)}

DeleteFile(folder_path, filename, fault) ==
    LET ok == fault = NoFault
    IN /\ rd.pc = "idle" /\ wr.pc = "idle"
       /\ files' = IF ok THEN RemoveFile(files, folder_path, filename)
                   ELSE files
       /\ pre' = Catalog
       /\ call' = [op |-> "delete_file", path |-> folder_path,
                   name |-> filename, data |-> NoData,
                   fault |-> fault, ret |-> ok,
                   exc |-> Propagates(fault)]
       /\ UNCHANGED <<folders, users, rd, wr, boot, sess, upd, bcast, bulk>>

(***************************************************************************)
(* add_user: upsert on user_id; a failure is logged and swallowed.         *)
(***************************************************************************)
UpsertUser(us, user_id, username) ==
    {u \in us : u.user_id # user_id}
        \cup {[user_id |-> user_id, username |-> username]}

AddUser(user_id, username, fault) ==
    /\ rd.pc = "idle" /\ wr.pc = "idle"
    /\ users' = IF fault = NoFault THEN UpsertUser(users, user_id, username)
                ELSE users
    /\ pre' = Catalog
    /\ call' = [op |-> "add_user", path |-> <<>>, name |-> <<>>,
                data |-> NoData, fault |-> fault, ret |-> TRUE,
                exc |-> Propagates(fault)]
    /\ UNCHANGED <<folders, files, rd, wr, boot, sess, upd, bcast, bulk>>

(***************************************************************************)
(* The read side.                                                          *)
(***************************************************************************)
\* Variant matching every row below the path, not only its children
SelectSubfolders_Prefix(fo, path) ==
    {r.name : r \in {x \in fo : x.path # path /\ StartsWith(x.path, path)}}

SelectSubfolders(fo, path) == {r.name : r \in {x \in fo : x.parent_path = path}}

SelectFiles(fi, path) ==
    {<<r.filename, r.file_id>> : r \in {x \in fi : x.folder_path = path}}

\* The order of ORDER BY on text: character by character, a proper prefix
\* first (characters ranked by code point)
CharRank(c) ==
    CASE c = "%" -> 37 [] c = "/" -> 47 [] c = "A" -> 65 [] c = "B" -> 66
      [] c = "R" -> 82 [] c = "X" -> 88 [] c = "\\" -> 92 [] c = "_" -> 95
      [] c = "a" -> 97 [] c = "b" -> 98 [] c = "o" -> 111 [] c = "r" -> 114
      [] c = "t" -> 116 [] c = "x" -> 120 [] c = "y" -> 121 [] c = "z" -> 122

RECURSIVE StrLess(_, _)
StrLess(a, b) ==
    IF b = <<>> THEN FALSE
    ELSE IF a = <<>> THEN TRUE
    ELSE IF Head(a) = Head(b) THEN StrLess(Tail(a), Tail(b))
    ELSE CharRank(Head(a)) < CharRank(Head(b))

\* The rows of a SELECT ... ORDER BY, as the sequence of their sort keys
RECURSIVE OrderBy(_)
OrderBy(S) ==
    IF S = {} THEN <<>>
    ELSE LET m == CHOOSE x \in S : \A y \in S \ {x} : StrLess(x, y)
         IN <<m>> \o OrderBy(S \ {m})

\* get_folder_structure, the specification's list_children
GetFolderStructure(fo, fi, path) ==
    [subfolders |-> SelectSubfolders(fo, path), files |-> SelectFiles(fi, path)]

\* get_file_id, the specification's get_file_reference; "None" is absent
GetFileId(fi, folder_path, filename) ==
    IF \E r \in fi : SameKey(r, folder_path, filename)
    THEN (CHOOSE r \in fi : SameKey(r, folder_path, filename)).file_id
    ELSE "None"

\* get_folder_structure as the caller sees it: the keys of the two dicts in
\* insertion order, which is the order of the two ORDER BY queries.  A
\* (parent_path, name) pair determines the path, which is unique, so no two
\* rows of the first query carry the same name.
ListChildren(fo, fi, path) ==
    LET names == OrderBy(SelectSubfolders(fo, path))
        fnames == OrderBy({pr[1] : pr \in SelectFiles(fi, path)})
    IN [subfolders |-> names,
        files |-> [i \in 1..Len(fnames) |->
                     <<fnames[i], GetFileId(fi, path, fnames[i])>>]]

RECURSIVE SumSize(_)
SumSize(fi) ==
    IF fi = {} THEN 0
    ELSE LET r == CHOOSE x \in fi : TRUE IN r.file_size + SumSize(fi \ {r})

GetStats(fo, fi, us) ==
    <<Cardinality({r \in fo : r.path # Slash}), Cardinality(fi), SumSize(fi),
      Cardinality(us)>>

Next ==
    \/ \E a \in FolderArgs : CreateFolder(a[1], a[2], NoFault)
    \/ \E a \in FolderArgs : DeleteFolder(a[1], a[2], NoFault)
    \/ \E k \in FileArgs, d \in FileData : AddFile(k[1], k[2], d, NoFault)
    \/ \E k \in FileArgs : DeleteFile(k[1], k[2], NoFault)
    \/ \E u \in UserIds, n \in UserNames : AddUser(u, n, NoFault)

Spec == Init /\ [][Next]_vars

(***************************************************************************)
(* The same calls with storage faults: any one statement of a call may     *)
(* raise, and the call's except clause turns that into False.              *)
(***************************************************************************)
SmallFolderArgs == { <<Slash, S_A>>, <<Slash, S_AB>>, <<P_A, S_B>> }

NextFault ==
    \/ \E a \in SmallFolderArgs, f \in Faults1 : CreateFolder(a[1], a[2], f)
    \/ \E a \in SmallFolderArgs, f \in Faults2 : DeleteFolder(a[1], a[2], f)
    \/ \E k \in FileArgs, d \in FileData, f \in Faults1 :
          AddFile(k[1], k[2], d, f)
    \/ \E k \in FileArgs, f \in Faults1 : DeleteFile(k[1], k[2], f)
    \/ \E u \in UserIds, n \in UserNames, f \in Faults1 : AddUser(u, n, f)

SpecFault == Init /\ [][NextFault]_vars

(***************************************************************************)
(* A read racing with one mutation issued on another connection (the bot   *)
(* and bulk_upload.py each hold their own autocommit connection).  Every   *)
(* SQL statement is atomic; a call is the sequence of its statements.      *)
(***************************************************************************)
NumReadStmts(op) ==
    CASE op = "get_folder_structure" -> 2
      [] op = "get_file_id" -> 1
      [] op = "get_stats" -> 4

\* The result of the k-th SELECT of a read on catalog cat
ReadStmt(op, k, path, name, cat) ==
    CASE op = "get_folder_structure" ->
            IF k = 1 THEN SelectSubfolders(cat.folders, path)
            ELSE SelectFiles(cat.files, path)
      [] op = "get_file_id" -> GetFileId(cat.files, path, name)
      [] op = "get_stats" -> GetStats(cat.folders, cat.files, cat.users)[k]

\* What the read returns when all its statements see the same catalog
ReadAll(r, cat) ==
    [k \in 1..NumReadStmts(r.op) |-> ReadStmt(r.op, k, r.path, r.name, cat)]

NumWriteStmts(op) == IF op = "delete_folder" THEN 2 ELSE 1

Reads ==
    {[op |-> "get_folder_structure", path |-> p, name |-> <<>>] :
        p \in {Slash, P_A}}
    \cup {[op |-> "get_file_id", path |-> k[1], name |-> k[2]] :
            k \in FileArgs}
    \cup {[op |-> "get_stats", path |-> <<>>, name |-> <<>>]}

Writes ==
    {[op |-> o, path |-> a[1], name |-> a[2], data |-> NoData] :
        o \in {"create_folder", "delete_folder"}, a \in SmallFolderArgs}
    \cup {[op |-> "add_file", path |-> k[1], name |-> k[2], data |-> d] :
            k \in FileArgs, d \in FileData}
    \cup {[op |-> "delete_file", path |-> k[1], name |-> k[2], data |-> NoData] :
            k \in FileArgs}

StartRace(r, w) ==
    /\ rd.pc = "idle" /\ wr.pc = "idle"
    /\ w.op = "create_folder" => Cardinality(NonRoot(folders)) < MaxFolders
    /\ w.op = "add_file" => Cardinality(files) < MaxFiles
    /\ rd' = [Idle EXCEPT !.pc = "run", !.op = r.op, !.path = r.path,
                          !.name = r.name, !.k = 1]
    /\ wr' = [Idle EXCEPT !.pc = "run", !.op = w.op, !.path = w.path,
                          !.name = w.name, !.data = w.data, !.k = 1]
    /\ pre' = Catalog
    /\ call' = [NoCall EXCEPT !.op = "race"]
    /\ UNCHANGED <<folders, files, users, boot, sess, upd, bcast, bulk>>

\* The reader executes its next SELECT
ReadStep ==
    /\ rd.pc = "run"
    /\ rd' = [rd EXCEPT
                !.acc = Append(@, ReadStmt(rd.op, rd.k, rd.path, rd.name, Catalog)),
                !.k = @ + 1,
                !.pc = IF rd.k = NumReadStmts(rd.op) THEN "done" ELSE "run"]
    /\ UNCHANGED <<folders, files, users, pre, call, wr, boot, sess, upd, bcast, bulk>>

\* The writer executes its next statement
WriteStep ==
    /\ wr.pc = "run"
    /\ LET np == ChildPath(wr.path, wr.name)
           frow == [filename |-> wr.name, folder_path |-> wr.path,
                    file_id |-> wr.data.file_id,
                    file_type |-> wr.data.file_type,
                    file_size |-> wr.data.file_size]
       IN /\ folders' =
                CASE wr.op = "create_folder" ->
                        InsertFolder(folders, [path |-> np, name |-> wr.name,
                                               parent_path |-> wr.path])
                  [] wr.op = "delete_folder" /\ wr.k = 2 ->
                        DeleteFoldersLike(folders, DeletePattern(np))
                  [] OTHER -> folders
          /\ files' =
                CASE wr.op = "delete_folder" /\ wr.k = 1 ->
                        DeleteFilesLike(files, DeletePattern(np))
                  [] wr.op = "add_file" -> UpsertFile(files, frow)
                  [] wr.op = "delete_file" -> RemoveFile(files, wr.path, wr.name)
                  [] OTHER -> files
    /\ wr' = [wr EXCEPT
                !.k = @ + 1,
                !.pc = IF wr.k = NumWriteStmts(wr.op) THEN "done" ELSE "run"]
    /\ UNCHANGED <<users, pre, call, rd, boot, sess, upd, bcast, bulk>>

EndRace ==
    /\ rd.pc = "done" /\ wr.pc = "done"
    /\ rd' = Idle /\ wr' = Idle
    /\ UNCHANGED <<folders, files, users, pre, call, boot, sess, upd, bcast, bulk>>

NextConc ==
    \/ \E a \in SmallFolderArgs : CreateFolder(a[1], a[2], NoFault)
    \/ \E k \in FileArgs, d \in FileData : AddFile(k[1], k[2], d, NoFault)
    \/ \E u \in UserIds, n \in UserNames : AddUser(u, n, NoFault)
    \/ \E r \in Reads, w \in Writes : StartRace(r, w)
    \/ ReadStep
    \/ WriteStep
    \/ EndRace

SpecConc == Init /\ [][NextConc]_vars

(***************************************************************************)
(* Properties of the catalog operations.  pre is the catalog before the    *)
(* last call and call its arguments and result.                            *)
(***************************************************************************)
\* The computed path F of the last create_folder / delete_folder call
CallPath == ChildPath(call.path, call.name)

\* path is F itself or a descendant of F
Below(path, F) == path = F \/ StartsWith(path, F \o Slash)

DeletedFolder == call.op = "delete_folder" /\ call.fault = NoFault

\* A non-empty name with none of the characters LIKE treats specially
PlainName(n) ==
    n # <<>> /\ \A i \in 1..Len(n) : n[i] \notin {"%", "_", "\\"}

FoldersAt(fo, path) == {r \in fo : r.path = path}

FilesAt(fi, folder_path, filename) ==
    {r \in fi : SameKey(r, folder_path, filename)}

\* C1: delete_folder removes only the folder at F, its descendants (path F
\* or beginning with F + '/') and their files; every other Folder, File and
\* User row, a sibling such as /AB included, is left unchanged.  Stated for
\* the non-empty names free of LIKE metacharacters, where the pattern F% is
\* a plain prefix match: the violation is the missing separator, not a
\* wildcard.
C1_DeleteOnlySubtree ==
    (DeletedFolder /\ PlainName(call.name)) =>
        /\ folders \subseteq pre.folders
        /\ files \subseteq pre.files
        /\ \A r \in pre.folders : ~Below(r.path, CallPath) => r \in folders
        /\ \A r \in pre.files : ~Below(r.folder_path, CallPath) => r \in files
        /\ users = pre.users

\* C2: after any sequence of create_folder, delete_folder, add_file and
\* delete_file calls the folders table has exactly one row with path '/'.
C2_ExactlyOneRoot == Cardinality(FoldersAt(folders, Slash)) = 1

\* C3: when delete_folder returns true, the rows removed are exactly the
\* File and Folder rows whose key starts with the literal string F, for
\* every name, also one containing '%' or '_'.
C3_DeleteLiteralPrefix ==
    (DeletedFolder /\ call.ret) =>
        /\ folders = {r \in pre.folders : ~StartsWith(r.path, CallPath)}
        /\ files = {r \in pre.files : ~StartsWith(r.folder_path, CallPath)}

\* C4: after delete_folder(p, n) returns true, no folder and no file at or
\* below F remains reachable: list_children(p) does not contain n and
\* get_file_reference is absent for every file at or below F.
C4_CascadingDelete ==
    (DeletedFolder /\ call.ret) =>
        /\ \A r \in folders : ~Below(r.path, CallPath)
        /\ \A r \in pre.files :
              Below(r.folder_path, CallPath)
                 => GetFileId(files, r.folder_path, r.filename) = "None"
        /\ \A r \in pre.folders :
              (r.path = CallPath /\ r.parent_path = call.path)
                 => r.name \notin
                      GetFolderStructure(folders, files, call.path).subfolders

\* C5: delete_folder called when no Folder row exists at the computed path
\* returns true and leaves every folder, file and user row unchanged.  Stated
\* for the non-empty names free of LIKE metacharacters.
C5_DeleteAbsentNoOp ==
    (/\ DeletedFolder /\ PlainName(call.name)
     /\ FoldersAt(pre.folders, CallPath) = {}) =>
        (call.ret /\ Catalog = pre)

\* C6: create_folder(p, n) with no folder at the child path returns true
\* (its INSERT not failing) and leaves exactly one row there; the same call
\* repeated right after returns false, changes no row, and exactly one row
\* with that path exists.
C6_Step ==
    call'.op = "create_folder" =>
        LET np == ChildPath(call'.path, call'.name) IN
        /\ (call'.fault = NoFault /\ FoldersAt(folders, np) = {}) =>
              (call'.ret /\ Cardinality(FoldersAt(folders', np)) = 1)
        /\ ( /\ call.op = "create_folder" /\ call.ret
             /\ call.path = call'.path /\ call.name = call'.name )
              => /\ ~call'.ret
                 /\ folders' = folders /\ files' = files /\ users' = users
                 /\ Cardinality(FoldersAt(folders', np)) = 1

C6_DuplicateRejected == [][C6_Step]_vars

\* A create_folder call was rejected as a duplicate of an existing row
C6_Witness ==
    /\ call.op = "create_folder" /\ ~call.ret /\ call.fault = NoFault
    /\ Catalog = pre
    /\ \E r \in folders :
          r.path = CallPath /\ r.name = call.name /\ r.parent_path = call.path

\* C7: add_file is an upsert keyed on (filename, folder_path): after a
\* second add_file for the same key exactly one row has that key, with the
\* file_reference, file_type and file_size of the second call, and the rows
\* with any other key are unchanged.
C7_AddFileUpsert ==
    (call.op = "add_file" /\ call.ret) =>
        /\ Cardinality(FilesAt(files, call.path, call.name)) = 1
        /\ \A r \in FilesAt(files, call.path, call.name) :
              /\ r.file_id = call.data.file_id
              /\ r.file_type = call.data.file_type
              /\ r.file_size = call.data.file_size
        /\ files \ FilesAt(files, call.path, call.name)
              = pre.files \ FilesAt(pre.files, call.path, call.name)
        /\ folders = pre.folders /\ users = pre.users

\* add_file overwrote an existing row that held other values, beside a row
\* with another key
C7_Witness ==
    /\ call.op = "add_file" /\ call.ret
    /\ \E r \in FilesAt(pre.files, call.path, call.name) :
          r.file_id # call.data.file_id
    /\ pre.files \ FilesAt(pre.files, call.path, call.name) # {}

\* C8: whenever create_folder, delete_folder, add_file or delete_file
\* returns false, the folders and files tables are as before the call.
C8_FalseMeansUnchanged ==
    ( /\ call.op \in {"create_folder", "delete_folder", "add_file",
                       "delete_file"}
      /\ ~call.ret )
        => (folders = pre.folders /\ files = pre.files)

\* C9: in delete_folder, if the statement deleting files succeeds and the
\* statement deleting folders fails, the call returns false, the File rows
\* under the prefix are gone, the Folder rows under the prefix remain, and
\* nothing is rolled back.
C9_PartialDelete ==
    (call.op = "delete_folder" /\ call.fault = "stmt2") =>
        /\ ~call.ret
        /\ folders = pre.folders
        /\ files = {r \in pre.files : ~StartsWith(r.folder_path, CallPath)}
        /\ users = pre.users

\* The second statement failed after the first had deleted a file, and a
\* folder under the prefix is still there
C9_Witness ==
    /\ call.op = "delete_folder" /\ call.fault = "stmt2"
    /\ files # pre.files
    /\ \E r \in folders : StartsWith(r.path, CallPath)

\* C10: a read that runs concurrently with one mutation returns what it
\* would return entirely before or entirely after that mutation.
C10_ReadSeesPreOrPost ==
    (rd.pc = "done" /\ wr.pc = "done") =>
        (rd.acc = ReadAll(rd, pre) \/ rd.acc = ReadAll(rd, Catalog))

\* C11: after any sequence of create_folder and delete_folder calls every
\* non-root Folder row's parent_path is the path of an existing Folder row.
C11_ParentExists ==
    \A r \in NonRoot(folders) : \E q \in folders : q.path = r.parent_path

\* The paths a listing is asked for
ListPaths == {Slash, P_A, P_AB, P_A_B}

Range(seq) == {seq[i] : i \in 1..Len(seq)}

\* C12: list_children(p) returns exactly the names of the Folder rows whose
\* parent_path is p and exactly the (filename, reference) pairs of the File
\* rows whose folder_path is p, immediate children only, each once and in
\* ascending order; after create_folder(p, n) returned true, n is among the
\* subfolder names of list_children(p).
C12_ListChildren ==
    /\ \A p \in ListPaths :
         LET res == ListChildren(folders, files, p) IN
         /\ \A n \in Range(res.subfolders) :
               \E r \in folders : r.name = n /\ r.parent_path = p
         /\ \A r \in folders :
               r.parent_path = p => r.name \in Range(res.subfolders)
         /\ \A i \in 1..(Len(res.subfolders) - 1) :
               StrLess(res.subfolders[i], res.subfolders[i + 1])
         /\ \A pr \in Range(res.files) :
               \E r \in files :
                  r.folder_path = p /\ r.filename = pr[1] /\ r.file_id = pr[2]
         /\ \A r \in files :
               r.folder_path = p => <<r.filename, r.file_id>> \in Range(res.files)
         /\ \A i \in 1..(Len(res.files) - 1) :
               StrLess(res.files[i][1], res.files[i + 1][1])
    /\ (call.op = "create_folder" /\ call.ret) =>
          call.name \in Range(ListChildren(folders, files, call.path).subfolders)

\* create_folder('/A', 'B') succeeded next to /A: the listing of '/' has /A
\* and must not have the deeper /A/B
C12_Witness ==
    /\ call.op = "create_folder" /\ call.ret /\ call.path = P_A
    /\ \E r \in folders : r.path = P_A /\ r.parent_path = Slash
    /\ ListChildren(folders, files, call.path).subfolders = <<call.name>>

\* A listing with two subfolders, in order
C12_WitnessOrder == Len(ListChildren(folders, files, Slash).subfolders) >= 2

\* The last call is one the claim names as covering the key (folder_path,
\* filename): add_file or delete_file on it, or delete_folder of a folder
\* the file is in or below
Covers(folder_path, filename) ==
    \/ /\ call.op \in {"add_file", "delete_file"}
       /\ call.path = folder_path /\ call.name = filename
    \/ /\ call.op = "delete_folder"
       /\ (CallPath = Slash \/ Below(folder_path, CallPath))

\* C13: after add_file(p, f, ref) returned true, get_file_reference(p, f) is
\* ref and list_children(p) maps f to ref; a stored reference stays as it is
\* until a later add_file, delete_file or delete_folder covering (f, p);
\* a pair with no File row has no reference.  The persistence is stated for
\* the delete_folder names free of LIKE metacharacters, where only the
\* missing separator of the pattern F% is at work.
C13_FileReference ==
    /\ (call.op = "add_file" /\ call.ret) =>
          /\ GetFileId(files, call.path, call.name) = call.data.file_id
          /\ <<call.name, call.data.file_id>> \in
                Range(ListChildren(folders, files, call.path).files)
    /\ \A k \in FileArgs :
          (/\ GetFileId(pre.files, k[1], k[2]) # "None"
           /\ ~Covers(k[1], k[2])
           /\ call.op = "delete_folder" => PlainName(call.name)) =>
             GetFileId(files, k[1], k[2]) = GetFileId(pre.files, k[1], k[2])
    /\ \A k \in FileArgs :
          (~ \E r \in files : r.folder_path = k[1] /\ r.filename = k[2]) =>
             GetFileId(files, k[1], k[2]) = "None"

\* C14: no two Folder rows have the same path and no two File rows have the
\* same (filename, folder_path) pair, whatever calls were made.
C14_UniqueKeys ==
    /\ \A r \in folders : Cardinality(FoldersAt(folders, r.path)) = 1
    /\ \A r \in files :
          Cardinality(FilesAt(files, r.folder_path, r.filename)) = 1

\* add_file on a key that already had a row, with other data: the table
\* still has the single row of that key
C14_Witness ==
    /\ call.op = "add_file" /\ call.ret
    /\ \E r \in pre.files :
          SameKey(r, call.path, call.name) /\ r.file_id # call.data.file_id
    /\ Cardinality(folders) > 1

(***************************************************************************)
(* The calls on parent paths that end in '/'.  handle_folder_name takes    *)
(* any text as a folder name, so a folder named 'A/' can be created; once  *)
(* it is opened, path_to_string gives the parent path '/A/'.               *)
(***************************************************************************)
S_ASl == <<"A", "/">>
P_ASl == <<"/", "A", "/">>
P_ASlSl == <<"/", "A", "/", "/">>

TrailFolderArgs ==
    { <<Slash, S_A>>, <<Slash, S_ASl>>, <<P_A, S_B>>, <<P_ASl, S_B>>,
      <<P_ASlSl, S_B>>, <<P_A, <<>>>> }

TrailFileArgs == { <<P_ASl, F_x>>, <<P_A_B, F_y>> }

NextTrail ==
    \/ \E a \in TrailFolderArgs : CreateFolder(a[1], a[2], NoFault)
    \/ \E a \in TrailFolderArgs : DeleteFolder(a[1], a[2], NoFault)
    \/ \E k \in TrailFileArgs, d \in FileData : AddFile(k[1], k[2], d, NoFault)
    \/ \E k \in TrailFileArgs : DeleteFile(k[1], k[2], NoFault)

SpecTrail == Init /\ [][NextTrail]_vars

CreatedFolder == call.op = "create_folder" /\ call.ret

\* The frame of a successful create_folder whose new row has the given path
CreateFrame(new_path) ==
    LET row == [path |-> new_path, name |-> call.name,
                parent_path |-> call.path]
    IN /\ row \notin pre.folders
       /\ folders = pre.folders \cup {row}
       /\ files = pre.files
       /\ users = pre.users

WithoutTrailingSlashes(p) ==
    LET k == CHOOSE i \in 0..Len(p) :
                /\ i = 0 \/ p[i] # "/"
                /\ \A j \in (i + 1)..Len(p) : p[j] = "/"
    IN SubSeq(p, 1, k)

C16_DeleteFileExact ==
    (call.op = "delete_file" /\ call.fault = NoFault) =>
        /\ call.ret
        /\ files \subseteq pre.files
        /\ \A r \in pre.files :
              r \in files <=>
                 ~(r.filename = call.name /\ r.folder_path = call.path)
        /\ folders = pre.folders
        /\ users = pre.users
        /\ FilesAt(pre.files, call.path, call.name) = {} => Catalog = pre

\* delete_file removed a row while a file of the same name in another
\* folder stayed
C16_Witness ==
    /\ call.op = "delete_file" /\ call.ret
    /\ FilesAt(pre.files, call.path, call.name) # {}
    /\ \E r \in files : r.filename = call.name /\ r.folder_path # call.path

\* delete_file on a key with no row, right after the state it left behind
C16_WitnessAbsent ==
    /\ call.op = "delete_file" /\ call.ret
    /\ FilesAt(pre.files, call.path, call.name) = {}
    /\ pre.files # {}

(***************************************************************************)
(* search_files: filename ILIKE '%' + query + '%' LIMIT 20.  ILIKE is LIKE *)
(* on the case-folded strings; the query goes into the pattern unescaped.  *)
(* Without ORDER BY the rows LIMIT keeps are any rows that match.          *)
(***************************************************************************)
SearchLimit == 20

Lower(c) ==
    CASE c = "A" -> "a" [] c = "B" -> "b" [] c = "R" -> "r" [] c = "X" -> "x"
      [] OTHER -> c

LowerStr(s) == [i \in 1..Len(s) |-> Lower(s[i])]

ILike(s, pat) == LikeMatch(LowerStr(s), LowerStr(pat))

SearchPattern(query) == <<"%">> \o query \o <<"%">>

SearchRow(r) ==
    [filename |-> r.filename, folder_path |-> r.folder_path,
     file_id |-> r.file_id]

Min(a, b) == IF a < b THEN a ELSE b

\* The possible results of search_files, each the set of its rows
SearchFiles(fi, query) ==
    LET matches == {SearchRow(r) :
                      r \in {x \in fi : ILike(x.filename, SearchPattern(query))}}
    IN {S \in SUBSET matches :
          Cardinality(S) = Min(SearchLimit, Cardinality(matches))}

GetAllUsers(us) == {u.user_id : u \in us}

(***************************************************************************)
(* The read calls, with storage faults: the statement that raises ends the *)
(* call in its except clause, which returns the method's failure value.    *)
(***************************************************************************)
EmptyStructure == [subfolders |-> <<>>, files |-> <<>>]

FailureValue(op) ==
    CASE op = "get_folder_structure" -> EmptyStructure
      [] op = "get_file_id" -> "None"
      [] op = "get_stats" -> <<0, 0, 0, 0>>
      [] op = "search_files" -> {}
      [] op = "get_all_users" -> {}

\* A read call: the catalog stays, the call and its result are recorded
ReadCall(op, path, name, fault, value) ==
    /\ rd.pc = "idle" /\ wr.pc = "idle"
    /\ pre' = Catalog
    /\ call' = [op |-> op, path |-> path, name |-> name, data |-> NoData,
                fault |-> fault,
                ret |-> IF fault = NoFault THEN value ELSE FailureValue(op),
                exc |-> Propagates(fault)]
    /\ UNCHANGED <<folders, files, users, rd, wr, boot, sess, upd, bcast, bulk>>

GetFolderStructureCall(path, fault) ==
    ReadCall("get_folder_structure", path, <<>>, fault,
             ListChildren(folders, files, path))

GetFileIdCall(folder_path, filename, fault) ==
    ReadCall("get_file_id", folder_path, filename, fault,
             GetFileId(files, folder_path, filename))

GetStatsCall(fault) ==
    ReadCall("get_stats", <<>>, <<>>, fault, GetStats(folders, files, users))

SearchFilesCall(query, fault) ==
    \E res \in SearchFiles(files, query) :
        ReadCall("search_files", <<>>, query, fault, res)

GetAllUsersCall(fault) ==
    ReadCall("get_all_users", <<>>, <<>>, fault, GetAllUsers(users))

Queries == { <<"x">>, <<"X">>, <<"_">>, <<"z">> }

NextErr ==
    \/ \E a \in SmallFolderArgs, f \in Faults1 : CreateFolder(a[1], a[2], f)
    \/ \E a \in SmallFolderArgs, f \in Faults2 : DeleteFolder(a[1], a[2], f)
    \/ \E k \in FileArgs, d \in FileData, f \in Faults1 :
          AddFile(k[1], k[2], d, f)
    \/ \E k \in FileArgs, f \in Faults1 : DeleteFile(k[1], k[2], f)
    \/ \E u \in UserIds, n \in UserNames, f \in Faults1 : AddUser(u, n, f)
    \/ \E p \in {Slash, P_A}, f \in Faults2 : GetFolderStructureCall(p, f)
    \/ \E k \in FileArgs, f \in Faults1 : GetFileIdCall(k[1], k[2], f)
    \/ \E f \in Faults4 : GetStatsCall(f)
    \/ \E q \in Queries, f \in Faults1 : SearchFilesCall(q, f)
    \/ \E f \in Faults1 : GetAllUsersCall(f)

SpecErr == Init /\ [][NextErr]_vars

MutatingOps == {"create_folder", "delete_folder", "add_file", "delete_file"}

ReadOps ==
    {"get_folder_structure", "get_file_id", "get_stats", "search_files",
     "get_all_users"}

\* C17: every DatabaseManager operation after initialization turns a
\* storage-layer failure into its failure value (the empty structure, false,
\* absent, zeros, the empty list) and never lets an exception reach its
\* caller.
C17_FaultsBecomeFailureValues ==
    /\ ~call.exc
    /\ call.fault # NoFault =>
         /\ call.op \in MutatingOps => call.ret = FALSE
         /\ call.op = "get_folder_structure" =>
               call.ret.subfolders = <<>> /\ call.ret.files = <<>>
         /\ call.op = "get_file_id" => call.ret = "None"
         /\ call.op = "get_stats" => call.ret = <<0, 0, 0, 0>>
         /\ call.op \in {"search_files", "get_all_users"} => call.ret = {}
         /\ call.op \in ReadOps \cup {"add_user"} => Catalog = pre

\* A read failed on a catalog that has rows to return
C17_Witness ==
    /\ call.op = "get_folder_structure" /\ call.fault = "stmt2"
    /\ ListChildren(folders, files, call.path) # EmptyStructure
    /\ call.ret = EmptyStructure

\* q occurs in s
Contains(s, q) ==
    \E i \in 0..(Len(s) - Len(q)) : SubSeq(s, i + 1, i + Len(q)) = q

ContainsNoCase(s, q) == Contains(LowerStr(s), LowerStr(q))

\* C20: search_files(q) returns only File rows whose filename contains q as
\* a case-insensitive substring, at most 20 of them, and a non-empty result
\* whenever at least one such row exists.
C20_SearchSubstring ==
    (call.op = "search_files" /\ call.fault = NoFault) =>
        /\ \A r \in call.ret :
              /\ \E x \in files : SearchRow(x) = r
              /\ ContainsNoCase(r.filename, call.name)
        /\ Cardinality(call.ret) <= 20
        /\ (\E x \in files : ContainsNoCase(x.filename, call.name)) =>
              call.ret # {}

(***************************************************************************)
(* main(): the configuration check, DatabaseManager() (connect with SSL,   *)
(* then without, then create_tables), the application, the handlers,       *)
(* polling.  The store outlives the process: a later run of main() finds   *)
(* the rows the earlier runs left.                                         *)
(***************************************************************************)
NotStarted == [pc |-> "start", ssl_failed |-> FALSE, plain_failed |-> FALSE,
               tables_failed |-> FALSE, app |-> FALSE, handlers |-> FALSE]

\* A database with no table yet
InitBoot ==
    /\ folders = {}
    /\ files = {}
    /\ users = {}
    /\ pre = [folders |-> {}, files |-> {}, users |-> {}]
    /\ call = NoCall
    /\ rd = Idle
    /\ wr = Idle
    /\ boot = NotStarted
    /\ sess = NoSessions
    /\ upd = NoUpdate
    /\ bcast = NoBroadcast
    /\ bulk = BulkIdle

\* Variant of main() that goes on after DatabaseManager() raised
OnInitFailure_Continue == "build_app"

\* main(): except Exception around DatabaseManager(): log and return
OnInitFailure == "exited"

\* TOKEN and DATABASE_URL must be set
CheckConfig(ok) ==
    /\ boot.pc = "start"
    /\ boot' = [boot EXCEPT !.pc = IF ok THEN "connect_ssl" ELSE "exited"]
    /\ UNCHANGED <<folders, files, users, pre, call, rd, wr, sess, upd, bcast, bulk>>

\* connect: psycopg2.connect(DATABASE_URL, sslmode='require')
ConnectSSL(ok) ==
    /\ boot.pc = "connect_ssl"
    /\ boot' = IF ok THEN [boot EXCEPT !.pc = "create_tables"]
               ELSE [boot EXCEPT !.pc = "connect_plain", !.ssl_failed = TRUE]
    /\ UNCHANGED <<folders, files, users, pre, call, rd, wr, sess, upd, bcast, bulk>>

\* connect, the fallback: psycopg2.connect(DATABASE_URL); a failure is
\* raised again and leaves __init__
ConnectPlain(ok) ==
    /\ boot.pc = "connect_plain"
    /\ boot' = IF ok THEN [boot EXCEPT !.pc = "create_tables"]
               ELSE [boot EXCEPT !.pc = OnInitFailure, !.plain_failed = TRUE]
    /\ UNCHANGED <<folders, files, users, pre, call, rd, wr, sess, upd, bcast, bulk>>

\* Variant with ON CONFLICT (path) DO UPDATE
InsertRoot_Overwrite(fo) == {r \in fo : r.path # Slash} \cup {RootRow}

\* INSERT INTO folders VALUES ('/', 'Root', NULL) ON CONFLICT (path) DO NOTHING
InsertRoot(fo) == InsertFolder(fo, RootRow)

\* create_tables: CREATE TABLE / INDEX IF NOT EXISTS, which touch no row,
\* then the root INSERT as the last statement; a failure of any statement
\* is raised again
CreateTables(fault) ==
    LET ok == fault = NoFault
    IN /\ boot.pc = "create_tables"
       /\ folders' = IF ok THEN InsertRoot(folders) ELSE folders
       /\ pre' = Catalog
       /\ call' = [op |-> "create_tables", path |-> <<>>, name |-> <<>>,
                   data |-> NoData, fault |-> fault, ret |-> ok,
                   exc |-> ~ok]
       /\ boot' = IF ok THEN [boot EXCEPT !.pc = "build_app"]
                  ELSE [boot EXCEPT !.pc = OnInitFailure,
                                    !.tables_failed = TRUE]
       /\ UNCHANGED <<files, users, rd, wr, sess, upd, bcast, bulk>>

\* Application.builder().token(TOKEN).build(); an exception ends main()
BuildApp(ok) ==
    /\ boot.pc = "build_app"
    /\ boot' = IF ok THEN [boot EXCEPT !.pc = "register", !.app = TRUE]
               ELSE [boot EXCEPT !.pc = "exited"]
    /\ UNCHANGED <<folders, files, users, pre, call, rd, wr, sess, upd, bcast, bulk>>

\* the app.add_handler calls, then app.run_polling
RegisterHandlers ==
    /\ boot.pc = "register"
    /\ boot' = [boot EXCEPT !.pc = "polling", !.handlers = TRUE]
    /\ UNCHANGED <<folders, files, users, pre, call, rd, wr, sess, upd, bcast, bulk>>

\* run_polling returns (the process is stopped); finally: db.close()
StopPolling ==
    /\ boot.pc = "polling"
    /\ boot' = [boot EXCEPT !.pc = "exited"]
    /\ UNCHANGED <<folders, files, users, pre, call, rd, wr, sess, upd, bcast, bulk>>

\* main() is run again on the same store
Restart ==
    /\ boot.pc = "exited"
    /\ boot' = NotStarted
    /\ call' = NoCall
    /\ pre' = Catalog
    /\ UNCHANGED <<folders, files, users, rd, wr, sess, upd, bcast, bulk>>

BootFolderArgs ==
    { <<Slash, S_A>>, <<P_A, S_B>>, <<Slash, S_Pct>>, <<Slash, <<>>>> }

BootFileArgs == { <<P_A, F_x>>, <<P_A_B, F_y>> }

\* The calls the handlers make while the application polls
Polling ==
    /\ boot.pc = "polling"
    /\ \/ \E a \in BootFolderArgs : CreateFolder(a[1], a[2], NoFault)
       \/ \E a \in BootFolderArgs : DeleteFolder(a[1], a[2], NoFault)
       \/ \E k \in BootFileArgs, d \in FileData :
             AddFile(k[1], k[2], d, NoFault)
       \/ \E k \in BootFileArgs : DeleteFile(k[1], k[2], NoFault)
       \/ \E u \in UserIds, n \in UserNames : AddUser(u, n, NoFault)

NextBoot ==
    \/ \E ok \in BOOLEAN : CheckConfig(ok)
    \/ \E ok \in BOOLEAN : ConnectSSL(ok)
    \/ \E ok \in BOOLEAN : ConnectPlain(ok)
    \/ \E f \in Faults1 : CreateTables(f)
    \/ \E ok \in BOOLEAN : BuildApp(ok)
    \/ RegisterHandlers
    \/ Polling
    \/ StopPolling
    \/ Restart

SpecBoot == InitBoot /\ [][NextBoot]_vars

\* The operations the handlers call while updates are processed
UpdateOps ==
    MutatingOps \cup ReadOps \cup {"add_user"}

InitFailed ==
    (boot.ssl_failed /\ boot.plain_failed) \/ boot.tables_failed

\* C18: if both the SSL and the non-SSL connection attempt fail, or table
\* creation fails, main() returns without building the application,
\* registering a handler or polling: this run processes no update.
C18_InitFailureStartsNothing ==
    InitFailed =>
        /\ boot.pc = "exited"
        /\ ~boot.app
        /\ ~boot.handlers
        /\ call.op \notin UpdateOps
        /\ (call.op = "create_tables" => call.exc)

\* Both connection attempts failed, on a store that earlier runs filled
C18_Witness ==
    /\ boot.ssl_failed /\ boot.plain_failed
    /\ boot.pc = "exited"
    /\ files # {}

\* Table creation failed after a successful connection
C18_WitnessTables ==
    /\ boot.tables_failed /\ ~boot.plain_failed
    /\ boot.pc = "exited"

\* C19: however often create_tables is run, with or without catalog
\* mutations in between, the store then has exactly one root Folder row,
\* and no folder, file or user row that existed before is altered or
\* removed.
C19_CreateTablesIdempotent ==
    (call.op = "create_tables" /\ call.ret) =>
        /\ Cardinality(FoldersAt(folders, Slash)) = 1
        /\ pre.folders \subseteq folders
        /\ folders \ pre.folders \subseteq {RootRow}
        /\ files = pre.files
        /\ users = pre.users

\* create_tables ran again on a store that already had a root row and rows
\* written by the handlers of an earlier run
C19_Witness ==
    /\ call.op = "create_tables" /\ call.ret
    /\ FoldersAt(pre.folders, Slash) # {}
    /\ NonRoot(pre.folders) # {}
    /\ pre.files # {}

\* create_tables ran on a store whose root row had been deleted
C19_WitnessRootLost ==
    /\ call.op = "create_tables" /\ call.ret
    /\ FoldersAt(pre.folders, Slash) = {}
    /\ pre.files # {}

(***************************************************************************)
(* The handlers of bot/handlers.  A session is context.user_data of one    *)
(* user; upd records the update just handled and the session it found.     *)
(***************************************************************************)
MaxDepth == 2      \* segments of a session's current_path

ADMIN_USERNAME == "admin"

Username(u) == u

UserId(u) == IF u = Admin THEN 1 ELSE 2

\* Variant that lets every user pass
CheckAdmin_Anyone(u) == TRUE

\* check_admin: update.effective_user.username == ADMIN_USERNAME
CheckAdmin(u) == Username(u) = ADMIN_USERNAME

RECURSIVE JoinSegments(_)
JoinSegments(path_list) ==
    IF Len(path_list) = 1 THEN Head(path_list)
    ELSE Head(path_list) \o Slash \o JoinSegments(Tail(path_list))

\* utils.path_to_string
PathToString(path_list) ==
    IF path_list = <<>> THEN Slash ELSE Slash \o JoinSegments(path_list)

\* str.strip() of a message text (the only whitespace here is the blank)
RECURSIVE LStrip(_)
LStrip(s) == IF s # <<>> /\ Head(s) = " " THEN LStrip(Tail(s)) ELSE s

RECURSIVE RStrip(_)
RStrip(s) ==
    IF s # <<>> /\ s[Len(s)] = " " THEN RStrip(SubSeq(s, 1, Len(s) - 1))
    ELSE s

Strip(s) == RStrip(LStrip(s))

\* The update being handled and the handler that got it
Update(u, kind, handler, data) ==
    [user |-> u, kind |-> kind, handler |-> handler, data |-> data]

\* The calls a handler makes on bot_data['db'] (no statement fails here)
DbNone ==
    /\ pre' = Catalog
    /\ call' = NoCall
    /\ UNCHANGED <<folders, files, users>>

DbCreateFolder(parent_path, folder_name) ==
    LET new_path == ChildPath(parent_path, folder_name)
        row == [path |-> new_path, name |-> folder_name,
                parent_path |-> parent_path]
        ok == CreateFolderOk(folders, new_path, NoFault)
    IN /\ ok => Cardinality(NonRoot(folders)) < MaxFolders
       /\ folders' = IF ok THEN InsertFolder(folders, row) ELSE folders
       /\ pre' = Catalog
       /\ call' = [op |-> "create_folder", path |-> parent_path,
                   name |-> folder_name, data |-> NoData,
                   fault |-> NoFault, ret |-> ok, exc |-> FALSE]
       /\ UNCHANGED <<files, users>>

DbDeleteFolder(parent_path, folder_name) ==
    LET pat == DeletePattern(ChildPath(parent_path, folder_name))
    IN /\ files' = DeleteFilesLike(files, pat)
       /\ folders' = DeleteFoldersLike(folders, pat)
       /\ pre' = Catalog
       /\ call' = [op |-> "delete_folder", path |-> parent_path,
                   name |-> folder_name, data |-> NoData,
                   fault |-> NoFault, ret |-> TRUE, exc |-> FALSE]
       /\ UNCHANGED users

DbAddFile(folder_path, filename, data) ==
    LET row == [filename |-> filename, folder_path |-> folder_path,
                file_id |-> data.file_id, file_type |-> data.file_type,
                file_size |-> data.file_size]
    IN /\ (~ \E r \in files : SameKey(r, folder_path, filename))
             => Cardinality(files) < MaxFiles
       /\ files' = UpsertFile(files, row)
       /\ pre' = Catalog
       /\ call' = [op |-> "add_file", path |-> folder_path,
                   name |-> filename, data |-> data,
                   fault |-> NoFault, ret |-> TRUE, exc |-> FALSE]
       /\ UNCHANGED <<folders, users>>

DbDeleteFile(folder_path, filename) ==
    /\ files' = RemoveFile(files, folder_path, filename)
    /\ pre' = Catalog
    /\ call' = [op |-> "delete_file", path |-> folder_path,
                name |-> filename, data |-> NoData,
                fault |-> NoFault, ret |-> TRUE, exc |-> FALSE]
    /\ UNCHANGED <<folders, users>>

DbAddUser(user_id, username) ==
    /\ users' = UpsertUser(users, user_id, username)
    /\ pre' = Catalog
    /\ call' = [op |-> "add_user", path |-> <<>>, name |-> <<>>,
                data |-> NoData, fault |-> NoFault, ret |-> TRUE,
                exc |-> FALSE]
    /\ UNCHANGED <<folders, files>>

DbSearchFiles(query) ==
    /\ \E res \in SearchFiles(files, query) :
          call' = [op |-> "search_files", path |-> <<>>, name |-> query,
                   data |-> NoData, fault |-> NoFault, ret |-> res,
                   exc |-> FALSE]
    /\ pre' = Catalog
    /\ UNCHANGED <<folders, files, users>>

\* What every handler leaves alone
HandlerFrame == UNCHANGED <<rd, wr, boot, bulk>>

SetSession(u, field, value) ==
    sess' = [sess EXCEPT ![u][field] = value]

\* common.start: /start, and the close_interface button
Start(u) ==
    /\ upd' = Update(u, "command", "start", <<>>)
    /\ DbAddUser(UserId(u), Username(u))
    /\ SetSession(u, "current_path", <<>>)
    /\ UNCHANGED bcast /\ HandlerFrame

\* user.browse_folders
BrowseFolders(u) ==
    /\ upd' = Update(u, "callback", "browse_folders", <<>>)
    /\ DbNone
    /\ SetSession(u, "current_path", <<>>)
    /\ UNCHANGED bcast /\ HandlerFrame

\* user.open_folder: the name of the button is appended, whatever it is
OpenFolder(u, folder_name) ==
    /\ Len(sess[u].current_path) < MaxDepth
    /\ upd' = Update(u, "callback", "open_folder", folder_name)
    /\ DbNone
    /\ SetSession(u, "current_path", Append(sess[u].current_path, folder_name))
    /\ UNCHANGED bcast /\ HandlerFrame

\* user.back: path.pop() when the path is not empty
Back(u) ==
    LET path == sess[u].current_path
    IN /\ upd' = Update(u, "callback", "back", <<>>)
       /\ DbNone
       /\ SetSession(u, "current_path",
                     IF path # <<>> THEN SubSeq(path, 1, Len(path) - 1)
                     ELSE path)
       /\ UNCHANGED bcast /\ HandlerFrame

\* user.search_start: no check_admin
SearchStart(u) ==
    /\ upd' = Update(u, "callback", "search_start", <<>>)
    /\ DbNone
    /\ SetSession(u, "awaiting_search", TRUE)
    /\ UNCHANGED bcast /\ HandlerFrame

\* admin.create_folder_start, upload_start, broadcast_start: check_admin,
\* then the flag is set; no other flag is touched
FlagOf(handler) ==
    CASE handler = "create_folder_start" -> "awaiting_folder_name"
      [] handler = "upload_start" -> "awaiting_upload"
      [] handler = "broadcast_start" -> "awaiting_broadcast"

AdminStart(u, handler) ==
    /\ upd' = Update(u, "callback", handler, <<>>)
    /\ DbNone
    /\ IF CheckAdmin(u)
       THEN sess' = [sess EXCEPT
                       ![u][FlagOf(handler)] = TRUE,
                       ![u].prompted_path =
                           IF handler = "upload_start"
                           THEN sess[u].current_path ELSE @]
       ELSE UNCHANGED sess
    /\ UNCHANGED bcast /\ HandlerFrame

\* admin.handle_folder_name
HandleFolderName(u, text) ==
    /\ upd' = Update(u, "text", "handle_folder_name", text)
    /\ IF sess[u].awaiting_folder_name /\ CheckAdmin(u)
       THEN /\ DbCreateFolder(PathToString(sess[u].current_path), Strip(text))
            /\ SetSession(u, "awaiting_folder_name", FALSE)
       ELSE DbNone /\ UNCHANGED sess
    /\ UNCHANGED bcast /\ HandlerFrame

\* admin.handle_file_upload: the flag stays set
HandleFileUpload(u, filename, data) ==
    /\ upd' = Update(u, "file", "handle_file_upload", filename)
    /\ IF sess[u].awaiting_upload /\ CheckAdmin(u)
       THEN DbAddFile(PathToString(sess[u].current_path), filename, data)
       ELSE DbNone
    /\ UNCHANGED <<sess, bcast>> /\ HandlerFrame

\* admin.delete_folder_confirm
DeleteFolderConfirm(u, folder_name) ==
    /\ upd' = Update(u, "callback", "delete_folder_confirm", folder_name)
    /\ IF CheckAdmin(u)
       THEN DbDeleteFolder(PathToString(sess[u].current_path), folder_name)
       ELSE DbNone
    /\ UNCHANGED <<sess, bcast>> /\ HandlerFrame

\* admin.delete_file_confirm
DeleteFileConfirm(u, filename) ==
    /\ upd' = Update(u, "callback", "delete_file_confirm", filename)
    /\ IF CheckAdmin(u)
       THEN DbDeleteFile(PathToString(sess[u].current_path), filename)
       ELSE DbNone
    /\ UNCHANGED <<sess, bcast>> /\ HandlerFrame

\* user.handle_search: no check_admin; the flag is cleared on both branches
HandleSearch(u, text) ==
    /\ upd' = Update(u, "text", "handle_search", text)
    /\ IF sess[u].awaiting_search
       THEN DbSearchFiles(text) /\ SetSession(u, "awaiting_search", FALSE)
       ELSE DbNone /\ UNCHANGED sess
    /\ UNCHANGED bcast /\ HandlerFrame

\* Variant of the delivery loop that gives up at the first failed delivery
RECURSIVE BroadcastLoop_StopOnFailure(_, _)
BroadcastLoop_StopOnFailure(user_list, failing) ==
    IF user_list = <<>> THEN [attempts |-> <<>>, delivered |-> {}, sent_count |-> 0]
    ELSE IF Head(user_list) \in failing
         THEN [attempts |-> <<Head(user_list)>>, delivered |-> {},
               sent_count |-> 0]
         ELSE LET rest == BroadcastLoop_StopOnFailure(Tail(user_list), failing)
              IN [attempts |-> <<Head(user_list)>> \o rest.attempts,
                  delivered |-> {Head(user_list)} \cup rest.delivered,
                  sent_count |-> 1 + rest.sent_count]

\* handle_broadcast's loop: one send_message per user id of the list; an
\* exception of a send is swallowed, a send that returns adds one to
\* sent_count.  failing is the set of user ids whose delivery raises.
RECURSIVE BroadcastLoop(_, _)
BroadcastLoop(user_list, failing) ==
    IF user_list = <<>> THEN [attempts |-> <<>>, delivered |-> {}, sent_count |-> 0]
    ELSE LET rest == BroadcastLoop(Tail(user_list), failing)
             ok == Head(user_list) \notin failing
         IN [attempts |-> <<Head(user_list)>> \o rest.attempts,
             delivered |-> IF ok THEN {Head(user_list)} \cup rest.delivered
                           ELSE rest.delivered,
             sent_count |-> IF ok THEN 1 + rest.sent_count
                            ELSE rest.sent_count]

\* The lists a SELECT without ORDER BY can return for a set of rows
Orderings(S) ==
    {f \in [1..Cardinality(S) -> S] : \A x \in S : \E i \in DOMAIN f : f[i] = x}

\* admin.handle_broadcast.  reply_ok: the final reply_text returns; when it
\* raises, the handler ends there, before the flag is cleared.
HandleBroadcast(u, text, failing, reply_ok) ==
    /\ upd' = Update(u, "text", "handle_broadcast", text)
    /\ IF sess[u].awaiting_broadcast /\ CheckAdmin(u)
       THEN \E user_list \in Orderings(GetAllUsers(users)) :
              LET run == BroadcastLoop(user_list, failing)
              IN /\ pre' = Catalog
                 /\ call' = [op |-> "get_all_users", path |-> <<>>,
                             name |-> <<>>, data |-> NoData,
                             fault |-> NoFault, ret |-> user_list,
                             exc |-> FALSE]
                 /\ bcast' = [attempts |-> run.attempts,
                              delivered |-> run.delivered,
                              reported |-> IF reply_ok THEN <<run.sent_count>>
                                           ELSE <<>>,
                              raised |-> ~reply_ok]
                 /\ IF reply_ok THEN SetSession(u, "awaiting_broadcast", FALSE)
                    ELSE UNCHANGED sess
                 /\ UNCHANGED <<folders, files, users>>
       ELSE DbNone /\ UNCHANGED <<sess, bcast>>
    /\ HandlerFrame

\* main.text_router: the first flag that is set selects the handler
TextRouter(u, text, failing, reply_ok) ==
    IF sess[u].awaiting_folder_name THEN HandleFolderName(u, text)
    ELSE IF sess[u].awaiting_search THEN HandleSearch(u, text)
    ELSE IF sess[u].awaiting_broadcast
         THEN HandleBroadcast(u, text, failing, reply_ok)
    ELSE /\ upd' = Update(u, "text", "text_router", text)
         /\ DbNone
         /\ UNCHANGED <<sess, bcast>> /\ HandlerFrame

\* The MessageHandlers main() registers for filters.TEXT & ~filters.COMMAND,
\* in the order of the add_handler calls, all in the default group
TextHandlers ==
    <<"handle_folder_name", "handle_search", "handle_broadcast", "text_router">>

\* Application.process_update: in a group the first handler whose filter
\* accepts the update handles it, and no other handler of the group does.
\* The four filters are the same filter.
DispatchText(u, text, failing, reply_ok) ==
    LET handler == Head(TextHandlers)
    IN CASE handler = "handle_folder_name" -> HandleFolderName(u, text)
         [] handler = "handle_search" -> HandleSearch(u, text)
         [] handler = "handle_broadcast" ->
               HandleBroadcast(u, text, failing, reply_ok)
         [] handler = "text_router" -> TextRouter(u, text, failing, reply_ok)

ButtonNames == {S_A, S_B}
TextInputs == {S_A, S_B, S_ASl}
UploadNames == {F_x}
UploadData == {[file_id |-> "ref1", file_type |-> "document", file_size |-> 0]}
StartHandlers == {"create_folder_start", "upload_start", "broadcast_start"}

\* The buttons of the listing of a session's current folder
ListedFolders(u) ==
    SelectSubfolders(folders, PathToString(sess[u].current_path))

ListedFiles(u) ==
    {pr[1] : pr \in SelectFiles(files, PathToString(sess[u].current_path))}

(***************************************************************************)
(* The running bot, the prompts and the text messages: updates of the two  *)
(* users, dispatched as main() registers the handlers; the sessions stay   *)
(* at the root folder.                                                     *)
(***************************************************************************)
NextBot ==
    \/ \E u \in BotUsers : Start(u)
    \/ \E u \in BotUsers : BrowseFolders(u)
    \/ \E u \in BotUsers : SearchStart(u)
    \/ \E u \in BotUsers, h \in StartHandlers : AdminStart(u, h)
    \/ \E u \in BotUsers, t \in TextInputs : DispatchText(u, t, {}, TRUE)
    \/ \E u \in BotUsers, f \in UploadNames, d \in UploadData :
          HandleFileUpload(u, f, d)

SpecBot == Init /\ [][NextBot]_vars

(***************************************************************************)
(* The running bot, navigation and folders: the administrator browses,     *)
(* creates and deletes folders; the other user browses.  A folder button   *)
(* that is pressed is one of the listing of the session's folder.          *)
(***************************************************************************)
NextNav ==
    \/ \E u \in BotUsers : BrowseFolders(u)
    \/ \E u \in BotUsers : \E n \in ListedFolders(u) : OpenFolder(u, n)
    \/ \E u \in BotUsers : Back(u)
    \/ AdminStart(Admin, "create_folder_start")
    \/ \E t \in TextInputs : DispatchText(Admin, t, {}, TRUE)
    \/ \E n \in ListedFolders(Admin) : DeleteFolderConfirm(Admin, n)

SpecNav == Init /\ [][NextNav]_vars

(***************************************************************************)
(* The running bot, uploads: the administrator creates folders named A,    *)
(* browses, asks to upload, sends files and deletes them.                  *)
(***************************************************************************)
NextUpload ==
    \/ Start(Admin)
    \/ BrowseFolders(Admin)
    \/ \E n \in ListedFolders(Admin) : OpenFolder(Admin, n)
    \/ Back(Admin)
    \/ \E h \in {"create_folder_start", "upload_start"} : AdminStart(Admin, h)
    \/ DispatchText(Admin, S_A, {}, TRUE)
    \/ \E f \in UploadNames, d \in UploadData : HandleFileUpload(Admin, f, d)
    \/ \E f \in ListedFiles(Admin) : DeleteFileConfirm(Admin, f)

SpecUpload == Init /\ [][NextUpload]_vars

HasSlash(n) == \E i \in 1..Len(n) : n[i] = "/"

\* The session paths of the current state and their prefixes
SessionPaths ==
    UNION {{SubSeq(sess[u].current_path, 1, k) :
               k \in 1..Len(sess[u].current_path)} : u \in BotUsers}

\* C21: path_to_string returns '/' for the empty segment list and otherwise
\* '/' followed by the segments joined by '/'; and for a session path s and
\* a name n without '/', path_to_string(s + [n]) is the path of the row that
\* create_folder(path_to_string(s), n) stores.
C21_PathToStringMatchesCreate ==
    /\ PathToString(<<>>) = Slash
    /\ \A s \in SessionPaths :
          LET front == SubSeq(s, 1, Len(s) - 1)
          IN PathToString(s) =
                (IF front = <<>> THEN <<>> ELSE PathToString(front))
                    \o Slash \o s[Len(s)]
    /\ (/\ upd.handler = "handle_folder_name"
        /\ call.op = "create_folder" /\ call.ret
        /\ ~HasSlash(call.name)) =>
          LET s == sess[upd.user].current_path
          IN /\ call.path = PathToString(s)
             /\ \E r \in folders \ pre.folders :
                   r.path = PathToString(Append(s, call.name))

(***************************************************************************)
(* The handler functions that change the catalog or broadcast, and the     *)
(* ones that prepare them, each called on an update of its kind from       *)
(* either user: whatever the dispatch or the buttons on screen, these are  *)
(* the calls such a handler can get.                                       *)
(***************************************************************************)
HandlerButtons == {S_A}
HandlerTexts == {S_A}

NextHandlers ==
    \/ \E u \in BotUsers : Start(u)
    \/ \E u \in BotUsers, h \in StartHandlers : AdminStart(u, h)
    \/ \E u \in BotUsers, t \in HandlerTexts : HandleFolderName(u, t)
    \/ \E u \in BotUsers, t \in HandlerTexts :
          HandleBroadcast(u, t, {}, TRUE)
    \/ \E u \in BotUsers, f \in UploadNames, d \in UploadData :
          HandleFileUpload(u, f, d)
    \/ \E u \in BotUsers, n \in HandlerButtons : DeleteFolderConfirm(u, n)
    \/ \E u \in BotUsers, f \in UploadNames : DeleteFileConfirm(u, f)

SpecHandlers == Init /\ [][NextHandlers]_vars

\* C22: no update of a user whose username is not ADMIN_USERNAME changes
\* the folders or files table or makes a broadcast: whenever a handler
\* changes one of them, the update it handles comes from the administrator.
C22_Step ==
    (folders' # folders \/ files' # files \/ bcast' # bcast) =>
        Username(upd'.user) = "admin"

C22_OnlyAdminChanges == [][C22_Step]_vars

\* The other user pressed the delete button of a folder that exists in the
\* folder the session is in: nothing was deleted
C22_Witness ==
    /\ upd.user = Guest /\ upd.handler = "delete_folder_confirm"
    /\ \E r \in folders :
          /\ r.name = upd.data
          /\ r.parent_path = PathToString(sess[Guest].current_path)
    /\ Catalog = pre

\* C23: each text message triggers exactly the one action selected by the
\* session flags - folder creation if awaiting_folder_name is set, else a
\* search if awaiting_search is set, else a broadcast if awaiting_broadcast
\* is set, else nothing - and the flag that was served is cleared.
C23_Step ==
    upd'.kind = "text" =>
        LET u == upd'.user IN
        IF sess[u].awaiting_folder_name
        THEN /\ call'.op = "create_folder"
             /\ ~sess'[u].awaiting_folder_name
        ELSE IF sess[u].awaiting_search
        THEN /\ call'.op = "search_files"
             /\ ~sess'[u].awaiting_search
        ELSE IF sess[u].awaiting_broadcast
        THEN /\ call'.op = "get_all_users"
             /\ ~sess'[u].awaiting_broadcast
        ELSE /\ call'.op = "init"
             /\ sess' = sess /\ bcast' = bcast
             /\ folders' = folders /\ files' = files /\ users' = users

C23_TextServesOneFlag == [][C23_Step]_vars

AwaitingFlags(s) ==
    {f \in {"awaiting_folder_name", "awaiting_search", "awaiting_broadcast"} :
        s[f]}

\* C24: in every reachable session state at most one of awaiting_folder_name,
\* awaiting_search and awaiting_broadcast is set.
C24_AtMostOneFlag ==
    \A u \in BotUsers : Cardinality(AwaitingFlags(sess[u])) <= 1

\* C25: after the admin pressed the upload button while the session's path
\* was P, every file the admin then sends is recorded under
\* path_to_string(P), also when the admin opened another folder, went back
\* or restarted the menu before sending it.
C25_UploadGoesToPromptedFolder ==
    (upd.handler = "handle_file_upload" /\ call.op = "add_file" /\ call.ret) =>
        /\ call.path = PathToString(sess[upd.user].prompted_path)
        /\ \E r \in files :
              /\ r.filename = call.name
              /\ r.folder_path = PathToString(sess[upd.user].prompted_path)

\* C26: every session's current_path, converted by path_to_string, is always
\* the path of an existing Folder row.
C26_SessionPathExists ==
    \A u \in BotUsers :
        \E r \in folders : r.path = PathToString(sess[u].current_path)

(***************************************************************************)
(* bulk_upload.py: the importer walks a directory tree, makes a Folder row *)
(* for every directory and uploads every file not yet recorded.  It holds  *)
(* its own autocommit connection.  bulk is its position: dir the db_path   *)
(* of the directory being walked, file the file being uploaded, i the loop *)
(* variable of upload_file, outcomes the attempts made, ret the value      *)
(* upload_file returned.                                                   *)
(***************************************************************************)
Retries == 3

\* str.replace('\\', '/')
RECURSIVE ReplaceBackslash(_)
ReplaceBackslash(s) ==
    IF s = <<>> THEN <<>>
    ELSE <<IF Head(s) = "\\" THEN "/" ELSE Head(s)>> \o ReplaceBackslash(Tail(s))

\* p.rfind('/') + 1
RECURSIVE AfterLastSlash(_)
AfterLastSlash(p) ==
    IF p = <<>> THEN 0
    ELSE IF p[Len(p)] = "/" THEN Len(p)
    ELSE AfterLastSlash(SubSeq(p, 1, Len(p) - 1))

AllSlashes(s) == \A k \in 1..Len(s) : s[k] = "/"

\* posixpath.dirname
Dirname(p) ==
    LET head == SubSeq(p, 1, AfterLastSlash(p))
    IN IF head # <<>> /\ ~AllSlashes(head) THEN RStripSlash(head) ELSE head

\* posixpath.basename
Basename(p) == SubSeq(p, AfterLastSlash(p) + 1, Len(p))

\* create_folder_in_db: the Folder rows after the call
RECURSIVE CreateFolderInDb(_, _)
CreateFolderInDb(fo, path) ==
    LET dir == ReplaceBackslash(Dirname(path))
        name == Basename(path)
        parent == IF dir = <<>> THEN Slash
                  ELSE IF ~StartsWith(dir, Slash) THEN Slash \o dir ELSE dir
        replaced == ReplaceBackslash(path)
        full_path == IF ~StartsWith(replaced, Slash) THEN Slash \o replaced
                     ELSE replaced
    IN IF \E r \in fo : r.path = full_path THEN fo
       ELSE LET withParent == IF parent # Slash
                              THEN CreateFolderInDb(fo, parent) ELSE fo
            IN InsertFolder(withParent, [path |-> full_path, name |-> name,
                                         parent_path |-> parent])

\* Values of upload_file: a 3-tuple (len 3) or the bare None a function
\* returns when its body ends without a return statement (len 0)
Triple(file_id, file_unique_id, file_size) ==
    [len |-> 3, file_id |-> file_id, file_unique_id |-> file_unique_id,
     file_size |-> file_size]
NoneTriple == Triple("None", "None", 0)
PyNone == [len |-> 0, file_id |-> "None", file_unique_id |-> "None",
           file_size |-> 0]
\* The document Telegram reports for a sent file
SentDocument == Triple("ref1", "uid1", 0)

BulkFrame == UNCHANGED <<users, rd, wr, boot, sess, upd, bcast>>

\* main, one directory of os.walk: db_path and create_folder_in_db
WalkDir(db_path) ==
    LET fo == IF db_path # Slash THEN CreateFolderInDb(folders, db_path)
              ELSE folders
    IN /\ bulk.pc = "idle"
       /\ Cardinality(NonRoot(fo)) <= MaxFolders
       /\ folders' = fo
       /\ pre' = Catalog
       /\ call' = IF db_path # Slash
                   THEN [op |-> "create_folder_in_db", path |-> db_path,
                         name |-> <<>>, data |-> NoData,
                         fault |-> NoFault, ret |-> TRUE, exc |-> FALSE]
                   ELSE NoCall
       /\ bulk' = [BulkIdle EXCEPT !.dir = db_path]
       /\ UNCHANGED files /\ BulkFrame

\* main, one file of the directory: skipped when already recorded, else
\* upload_file is called
ImportFile(filename) ==
    /\ bulk.pc = "idle"
    /\ bulk' = IF \E r \in files : SameKey(r, bulk.dir, filename)
               THEN bulk
               ELSE [bulk EXCEPT !.pc = "uploading", !.file = filename,
                                 !.i = 0, !.outcomes = <<>>, !.ret = PyNone]
    /\ UNCHANGED <<folders, files, pre, call>> /\ BulkFrame

\* upload_file, the body of one iteration of  for i in range(retries)
AfterAttempt(i, outcome) ==
    IF outcome = "ok" THEN [pc |-> "returned", i |-> i, ret |-> SentDocument]
    ELSE IF outcome = "retry_after"
         THEN IF i + 1 < Retries
              THEN [pc |-> "uploading", i |-> i + 1, ret |-> PyNone]
              ELSE [pc |-> "returned", i |-> i, ret |-> PyNone]
    ELSE IF i = Retries - 1
         THEN [pc |-> "returned", i |-> i, ret |-> NoneTriple]
         ELSE [pc |-> "uploading", i |-> i + 1, ret |-> PyNone]

AttemptOutcomes == {"ok", "retry_after", "error"}

UploadAttempt(outcome) ==
    /\ bulk.pc = "uploading"
    /\ LET after == AfterAttempt(bulk.i, outcome)
       IN bulk' = [bulk EXCEPT !.pc = after.pc, !.i = after.i,
                               !.ret = after.ret,
                               !.outcomes = Append(@, outcome)]
    /\ UNCHANGED <<folders, files, pre, call>> /\ BulkFrame

\* main: file_id, file_unique_id, file_size = await upload_file(...), then
\* the INSERT when file_id is truthy
Unpack ==
    /\ bulk.pc = "returned"
    /\ IF bulk.ret.len # 3
       THEN /\ bulk' = [bulk EXCEPT !.pc = "crashed", !.error = "TypeError"]
            /\ UNCHANGED <<files, pre, call>>
       ELSE IF bulk.ret.file_id = "None"
       THEN /\ bulk' = [bulk EXCEPT !.pc = "idle"]
            /\ UNCHANGED <<files, pre, call>>
       ELSE LET row == [filename |-> bulk.file, folder_path |-> bulk.dir,
                        file_id |-> bulk.ret.file_id,
                        file_type |-> "document",
                        file_size |-> bulk.ret.file_size]
                dup == \E r \in files : SameKey(r, bulk.dir, bulk.file)
            IN /\ ~dup => Cardinality(files) < MaxFiles
               /\ files' = IF dup THEN files ELSE files \cup {row}
               /\ bulk' = IF dup
                          THEN [bulk EXCEPT !.pc = "crashed",
                                            !.error = "IntegrityError"]
                          ELSE [bulk EXCEPT !.pc = "idle"]
               /\ pre' = Catalog
               /\ call' = [op |-> "import_file", path |-> bulk.dir,
                           name |-> bulk.file,
                           data |-> [file_id |-> bulk.ret.file_id,
                                     file_type |-> "document",
                                     file_size |-> bulk.ret.file_size],
                           fault |-> NoFault, ret |-> ~dup, exc |-> dup]
    /\ UNCHANGED folders /\ BulkFrame

\* The script is run again after it ended with an exception
RunAgain ==
    /\ bulk.pc = "crashed"
    /\ bulk' = BulkIdle
    /\ UNCHANGED <<folders, files, pre, call>> /\ BulkFrame

ImportDirs == {Slash, P_A, P_A_B}
ImportFiles == {F_x}
BulkBotArgs == { <<Slash, S_A>>, <<P_A, S_B>> }

\* The importer, and the bot creating and deleting folders meanwhile
NextBulk ==
    \/ \E d \in ImportDirs : WalkDir(d)
    \/ \E f \in ImportFiles : ImportFile(f)
    \/ \E o \in AttemptOutcomes : UploadAttempt(o)
    \/ Unpack
    \/ RunAgain
    \/ \E a \in BulkBotArgs : CreateFolder(a[1], a[2], NoFault)
    \/ DeleteFolder(Slash, S_A, NoFault)
    \/ DeleteFile(Slash, F_x, NoFault)

SpecBulk == Init /\ [][NextBulk]_vars

\* C27: upload_file ends after at most 3 attempts and returns a 3-tuple: the
\* identifiers of the first successful attempt, or (None, None, None), for
\* every mix of RetryAfter and other errors.
C27_UploadFileReturnsTriple ==
    /\ Len(bulk.outcomes) <= Retries
    /\ bulk.pc = "uploading" => Len(bulk.outcomes) < Retries
    /\ bulk.pc = "returned" =>
          /\ bulk.ret.len = 3
          /\ bulk.ret = IF bulk.outcomes[Len(bulk.outcomes)] = "ok"
                        THEN SentDocument ELSE NoneTriple

\* The proper non-root ancestors of an absolute path
ProperAncestors(path) ==
    {SubSeq(path, 1, k - 1) : k \in {j \in 2..Len(path) : path[j] = "/"}}

\* C28: after create_folder_in_db(path) returns, a Folder row exists for path
\* and for every proper non-root ancestor of it, each with the last segment
\* as name and the parent's path as parent_path, and the rows that existed
\* before are unchanged.
C28_ImportMakesAncestors ==
    call.op = "create_folder_in_db" =>
        /\ \A q \in {call.path} \cup ProperAncestors(call.path) :
              \E r \in folders :
                  /\ r.path = q
                  /\ r.name = Basename(q)
                  /\ r.parent_path = Dirname(q)
        /\ pre.folders \subseteq folders

(***************************************************************************)
(* Broadcasts: users register with /start, the administrator asks for a    *)
(* broadcast and the text is handled by handle_broadcast; any set of the   *)
(* deliveries may fail, and so may the final reply.                        *)
(***************************************************************************)
BroadcastIds == {UserId(u) : u \in BotUsers}

NextBroadcast ==
    \/ \E u \in BotUsers : Start(u)
    \/ \E u \in BotUsers : AdminStart(u, "broadcast_start")
    \/ \E u \in BotUsers, failing \in SUBSET BroadcastIds, reply_ok \in BOOLEAN :
          HandleBroadcast(u, S_A, failing, reply_ok)

SpecBroadcast == Init /\ [][NextBroadcast]_vars

StartTwin(parent_path, folder_name) ==
    /\ rd.pc = "idle" /\ wr.pc = "idle"
    /\ Cardinality(NonRoot(folders)) < MaxFolders
    /\ rd' = [Idle EXCEPT !.pc = "run", !.op = "create_folder",
                          !.path = parent_path, !.name = folder_name, !.k = 1]
    /\ wr' = [Idle EXCEPT !.pc = "run", !.op = "create_folder",
                          !.path = parent_path, !.name = folder_name, !.k = 1]
    /\ pre' = Catalog
    /\ call' = [NoCall EXCEPT !.op = "twin", !.path = parent_path,
                              !.name = folder_name]
    /\ UNCHANGED <<folders, files, users, boot, sess, upd, bcast, bulk>>

\* The INSERT of a connection, and the value its create_folder returns
TwinInsert(conn) ==
    LET new_path == ChildPath(conn.path, conn.name)
        row == [path |-> new_path, name |-> conn.name,
                parent_path |-> conn.path]
        ok == CreateFolderOk(folders, new_path, NoFault)
    IN [folders |-> IF ok THEN InsertFolder(folders, row) ELSE folders,
        conn |-> [conn EXCEPT !.pc = "done", !.k = @ + 1, !.acc = <<ok>>]]

FirstInsert ==
    /\ rd.pc = "run" /\ call.op = "twin"
    /\ folders' = TwinInsert(rd).folders
    /\ rd' = TwinInsert(rd).conn
    /\ UNCHANGED <<files, users, pre, call, wr, boot, sess, upd, bcast, bulk>>

SecondInsert ==
    /\ wr.pc = "run" /\ call.op = "twin"
    /\ folders' = TwinInsert(wr).folders
    /\ wr' = TwinInsert(wr).conn
    /\ UNCHANGED <<files, users, pre, call, rd, boot, sess, upd, bcast, bulk>>

EndTwin ==
    /\ rd.pc = "done" /\ wr.pc = "done" /\ call.op = "twin"
    /\ rd' = Idle /\ wr' = Idle
    /\ UNCHANGED <<folders, files, users, pre, call, boot, sess, upd, bcast, bulk>>

NextTwin ==
    \/ \E a \in FolderArgs : StartTwin(a[1], a[2])
    \/ FirstInsert
    \/ SecondInsert
    \/ EndTwin
    \/ \E a \in SmallFolderArgs : CreateFolder(a[1], a[2], NoFault)
    \/ \E a \in SmallFolderArgs : DeleteFolder(a[1], a[2], NoFault)

SpecTwin == Init /\ [][NextTwin]_vars

TwinPath == ChildPath(call.path, call.name)

\* C30: when two create_folder calls with the same parent path and name have
\* run concurrently on a catalog without that folder, exactly one has
\* returned true, the other false, and exactly one Folder row has the path.
C30_OneWinner ==
    (call.op = "twin" /\ rd.pc = "done" /\ wr.pc = "done"
        /\ ~(\E r \in pre.folders : r.path = TwinPath)) =>
        /\ rd.acc[1] # wr.acc[1]
        /\ Cardinality({r \in folders : r.path = TwinPath}) = 1

\* Both calls are over: the second connection's returned true, the first
\* connection's false
C30_Witness ==
    /\ call.op = "twin" /\ rd.pc = "done" /\ wr.pc = "done"
    /\ ~(\E r \in pre.folders : r.path = TwinPath)
    /\ wr.acc = <<TRUE>> /\ rd.acc = <<FALSE>>
====
